---- MODULE Spec2Model ----
(***************************************************************************)
(* The cancelable data-loading hooks of React-SOLID-Principles:            *)
(*   useQuery     (srp/hooks/useQuery, AbortController, deps [fetcher])    *)
(*   useGetUser   (srp/hooks/useGetUser, AbortController, deps [])         *)
(*   useLoadData  (dip/hooks/useLoadData, isMounted latch, deps)           *)
(* Each hook instance is a state machine: the useState cells, the list of  *)
(* effect activations (one AbortController / isMounted flag and one        *)
(* in-flight promise each) and the component's lifecycle phase.            *)
(* Beside the hooks: the example fetchers, the Modal, List and Button theme *)
(* utilities of ocp, the SRP views, ConsoleLogger and AvatarUploader, each  *)
(* a small machine of its own with its own specification.                  *)
(***************************************************************************)
EXTENDS Integers, Sequences, FiniteSets, TLC

\* Bound: effect activations of one hook instance.
MaxActs == 3

\* Bound: items of a JSON array a server answers with.
MaxItems == 6

\* Bound: items given to a List.
MaxListLen == 3

\* Bound: calls of a ConsoleLogger's log and clear.
MaxLogCalls == 4

\* Bounds: change events of an AvatarUploader's input, files of one selection.
MaxChanges == 2

MaxFiles == 2

\* useQuery: the QueryResult cells, the effect's activations, the lifecycle
\* phase of the component and the fetcher prop of the last render.
VARIABLES query, qEffects, qPhase, qFetcher

\* useGetUser: the UseUserResult cells of the variant that calls the
\* fetchUsers service and of the variant that fetches inline, both mounted
\* and unmounted together and given the same network outcomes; the
\* activations; the phase.
VARIABLES getUser, inlineUser, gEffects, gPhase

\* useLoadData: the {data, loading, error} cells, the activations, the phase
\* and the deps of the last render.
VARIABLES loadState, lEffects, lPhase, lDeps

\* One call of an example fetcher (fetchUsers, UserApiService.getUsers,
\* MenuApiService.getMenus): which one, what the network answered, whether
\* the signal it was given is aborted, how far it got and its promise.
VARIABLES fCall

\* Modal: the props of the last render, whether it is mounted, the keydown
\* listeners on document, the handler the last run of the ESC effect
\* registered, whether the last run of the scroll effect returned a cleanup,
\* document.body.style.overflow, the last DOM event and the onClose calls it
\* made.
VARIABLES mProps, mPhase, mListeners, mEscEffect, mScrollCleanup, overflow,
          mEvent, mCalled

\* Button themes: the DEFAULT_BUTTON_THEME object and one call of
\* mergeButtonThemes (its arguments, its result, and the argument objects as
\* they are after the call).
VARIABLES defaultTheme, tCall

\* One call of getVariantStyle: its arguments and what it returned.
VARIABLES styleCall

\* One render of List: its props, what it returned and the renderItem calls it made.
VARIABLES listCall

\* ConsoleLogger: the arrays it has created (an array's identity is its place
\* in heap), which of them is _logs and which were handed to onLog, in order;
\* the messages logged since the latest clear(); and what each array handed to
\* onLog held when it was handed over.
VARIABLES logger, sinceClear, snapshots

\* AvatarUploader: the storage provider it was mounted with and, for every
\* change event of its file input, what handleUpload did.
VARIABLES uploader

qVars == <<query, qEffects, qPhase, qFetcher>>
gVars == <<getUser, inlineUser, gEffects, gPhase>>
lVars == <<loadState, lEffects, lPhase, lDeps>>
fVars == <<fCall>>
mVars == <<mProps, mPhase, mListeners, mEscEffect, mScrollCleanup, overflow,
           mEvent, mCalled>>
tVars == <<defaultTheme, tCall>>
sVars == <<styleCall>>
listVars == <<listCall>>
cVars == <<logger, sinceClear, snapshots>>
uVars == <<uploader>>
vars == <<qVars, gVars, lVars, fVars, mVars, tVars, sVars, listVars, cVars, uVars>>

\* What a step of one hook instance leaves alone: every other instance.
qOthers == <<gVars, lVars, fVars, mVars, tVars, sVars, listVars, cVars, uVars>>
gOthers == <<qVars, lVars, fVars, mVars, tVars, sVars, listVars, cVars, uVars>>
lOthers == <<qVars, gVars, fVars, mVars, tVars, sVars, listVars, cVars, uVars>>

\* What a call of an example fetcher leaves alone: every hook instance.
fOthers == <<qVars, gVars, lVars, mVars, tVars, sVars, listVars, cVars, uVars>>

\* What a step of the Modal leaves alone.
mOthers == <<qVars, gVars, lVars, fVars, tVars, sVars, listVars, cVars, uVars>>

\* What a call of mergeButtonThemes leaves alone.
tOthers == <<qVars, gVars, lVars, fVars, mVars, sVars, listVars, cVars, uVars>>

sOthers == <<qVars, gVars, lVars, fVars, mVars, tVars, listVars, cVars, uVars>>

listOthers == <<qVars, gVars, lVars, fVars, mVars, tVars, sVars, cVars, uVars>>

cOthers == <<qVars, gVars, lVars, fVars, mVars, tVars, sVars, listVars, uVars>>

uOthers == <<qVars, gVars, lVars, fVars, mVars, tVars, sVars, listVars, cVars>>

Null == "null"

\* ------------------------------------------------------------ promises
\* How a fetcher's promise can settle.  `isError` is `error instanceof Error`.
Values == {"V1", "V2"}
Messages == {"boom", "HTTP Error: 500"}

Resolved(v) ==
    [kind |-> "resolve", value |-> v, isError |-> FALSE, name |-> Null, message |-> Null]

Rejected(isErr, nm, msg) ==
    [kind |-> "reject", value |-> Null, isError |-> isErr, name |-> nm, message |-> msg]

Pending ==
    [kind |-> "pending", value |-> Null, isError |-> FALSE, name |-> Null, message |-> Null]

\* The fetcher throws when it is called, before it returns a promise.
Thrown(isErr, nm, msg) ==
    [kind |-> "throw", value |-> Null, isError |-> isErr, name |-> nm, message |-> msg]

AbortError == Rejected(TRUE, "AbortError", "The operation was aborted.")

\* A value that is thrown but is no Error instance (throw "text", throw {}).
NonError == Rejected(FALSE, Null, "thrown")

\* ------------------------------------------------------------ activations
\* One run of a hook's effect: the fetcher it closed over, its
\* AbortController (`aborted` is abortController.signal.aborted) and the
\* promise of its fetch.
\* `returned` is the promise loadData() returned, `calls` the number of
\* times the activation has called its fetcher: loadData() runs once and
\* calls fetcher(...) once.
NewEffect(f) ==
    [fetcher |-> f, aborted |-> FALSE, pc |-> "pending", outcome |-> Pending,
     returned |-> "pending", calls |-> 1]

\* The cleanup React runs for the latest effect: abortController.abort().
\* One controller kept from the first activation on, aborted by every cleanup.
AbortLatest_First(effects) ==
    IF effects = <<>> THEN effects
    ELSE [effects EXCEPT ![1].aborted = TRUE]

AbortLatest(effects) ==
    IF effects = <<>> THEN effects
    ELSE [effects EXCEPT ![Len(effects)].aborted = TRUE]

\* abortController.abort() of activation i: aborting an aborted signal changes
\* nothing.
Abort(effects, i) == [effects EXCEPT ![i].aborted = TRUE]

SettleEffect(effects, i, o) ==
    [effects EXCEPT ![i].pc = "done", ![i].outcome = o]

\* The promise of the async function of activation i settles as r.
Return(effects, i, r) == [effects EXCEPT ![i].returned = r]

\* ------------------------------------------------------------ useQuery
Fetchers == {"fetcherA", "fetcherB"}

\* Any fetcher may be injected: one that honours the signal rejects with an
\* AbortError once aborted, one that ignores it settles as it likes, and one
\* may throw when called.  The await sits inside the try, so a throw reaches
\* the same catch as a rejection; the model gives it a step of its own.
FetcherOutcomes ==
    {Resolved(v) : v \in Values}
        \cup {Rejected(TRUE, "Error", m) : m \in Messages}
        \cup {AbortError, NonError}
        \cup {Thrown(TRUE, "Error", "boom"), Thrown(FALSE, Null, "thrown")}

\* useState initial values.
QueryInit == [loading |-> TRUE, data |-> Null, errors |-> <<>>]

\* loadData up to its await: setLoading(true).
LoadDataStart(st) == [st EXCEPT !.loading = TRUE]

\* A catch block that stores whatever was thrown.
ErrorMessage_Raw(o) == o.message

\* The catch block's message.
ErrorMessage(o) == IF o.isError THEN o.message ELSE "An unknown error occurred"

\* The try block with setErrors([]) left out.
LoadDataTry_KeepErrors(st, v) == [st EXCEPT !.data = v]

\* The try block after the await.
LoadDataTry(st, v) == [st EXCEPT !.data = v, !.errors = <<>>]

\* The catch block with setData(null) left out.
LoadDataCatch_KeepData(st, o) ==
    IF o.isError /\ o.name = "AbortError"
    THEN st
    ELSE [st EXCEPT !.errors = <<ErrorMessage(o)>>]

\* The catch block.
LoadDataCatch(st, o) ==
    IF o.isError /\ o.name = "AbortError"
    THEN st
    ELSE [st EXCEPT !.errors = <<ErrorMessage(o)>>, !.data = Null]

\* The finally block with setLoading(false) left out.
LoadDataFinally_NoReset(st) == st

\* The finally block: it runs after the try and after the catch, also when
\* the catch returns early.
LoadDataFinally(st) == [st EXCEPT !.loading = FALSE]

\* loadData from the await on, for a promise settling with o.
LoadDataSettle(st, o) ==
    IF o.kind = "resolve"
    THEN LoadDataFinally(LoadDataTry(st, o.value))
    ELSE LoadDataFinally(LoadDataCatch(st, o))

\* A catch that takes Error instances only and rethrows the rest.
CatchHandles_ErrorsOnly(o) == o.isError

\* catch (error) { ... }: it takes every thrown value and rethrows none.
CatchHandles(o) == TRUE

\* How the promise of loadData() settles: a failure of the try block that
\* the catch takes does not escape.
LoadDataReturns(o) ==
    IF o.kind = "resolve" \/ CatchHandles(o) THEN "fulfilled" ELSE "rejected"

\* A cleanup that also calls setLoading(false).
CleanupState_Reset(st) == [st EXCEPT !.loading = FALSE]

\* What the effect's cleanup does to the useState cells: it calls no setter.
CleanupState(st) == st

\* A state setter of an unmounted component is a no-op.
SetState(phase, old, new) == IF phase = "mounted" THEN new ELSE old

\* An effect without its deps array: it runs again after every render.
QRerender_NoDeps(effects, prev, f) == Append(AbortLatest(effects), NewEffect(f))

\* A re-render with fetcher f after one with fetcher prev: the effect has
\* deps [fetcher], so React cleans up and runs it again only when f is not
\* prev.
QRerender(effects, prev, f) ==
    IF <<prev>> # <<f>> THEN Append(AbortLatest(effects), NewEffect(f)) ELSE effects

QInit ==
    /\ query = QueryInit
    /\ qEffects = <<>>
    /\ qPhase = "rendered"
    /\ qFetcher \in Fetchers

\* The effect's first run, after the first render.
QRunEffect ==
    /\ qPhase = "rendered"
    /\ qPhase' = "mounted"
    /\ qEffects' = <<NewEffect(qFetcher)>>
    /\ query' = LoadDataStart(query)
    /\ UNCHANGED <<qFetcher, qOthers>>

\* Strict Mode replays the effect right after the mount: cleanup, effect.
QStrictReplay ==
    /\ qPhase = "mounted"
    /\ Len(qEffects) = 1
    /\ qEffects[1].pc = "pending"
    /\ Len(qEffects) < MaxActs
    /\ qEffects' = Append(AbortLatest(qEffects), NewEffect(qFetcher))
    /\ query' = LoadDataStart(CleanupState(query))
    /\ UNCHANGED <<qPhase, qFetcher, qOthers>>

\* A render with another fetcher: cleanup of the old effect, then the effect.
QChangeFetcher(f) ==
    /\ qPhase = "mounted"
    /\ f # qFetcher
    /\ Len(qEffects) < MaxActs
    /\ qFetcher' = f
    /\ qEffects' = Append(AbortLatest(qEffects), NewEffect(f))
    /\ query' = LoadDataStart(CleanupState(query))
    /\ UNCHANGED <<qPhase, qOthers>>

\* Unmount: the cleanup runs and the state cells are dropped.
QUnmount ==
    /\ qPhase = "mounted"
    /\ qPhase' = "unmounted"
    /\ qEffects' = AbortLatest(qEffects)
    /\ query' = CleanupState(query)
    /\ UNCHANGED <<qFetcher, qOthers>>

\* The cleanup of activation i called once more, after it has run.
QCleanupAgain(i) ==
    /\ i \in 1..Len(qEffects)
    /\ qEffects[i].aborted
    /\ qEffects' = Abort(qEffects, i)
    /\ query' = CleanupState(query)
    /\ UNCHANGED <<qPhase, qFetcher, qOthers>>

\* The fetch of activation i settles with o, loadData resumes, and the
\* component renders again with the fetcher it had: useQuery(fetchUsers).
QSettle(i, o) ==
    /\ i \in 1..Len(qEffects)
    /\ qEffects[i].pc = "pending"
    /\ qEffects' = QRerender(Return(SettleEffect(qEffects, i, o), i, LoadDataReturns(o)),
                             qFetcher, qFetcher)
    /\ query' = SetState(qPhase, query, LoadDataSettle(query, o))
    /\ UNCHANGED <<qPhase, qFetcher, qOthers>>

QNext ==
    \/ QRunEffect
    \/ QStrictReplay
    \/ \E f \in Fetchers : QChangeFetcher(f)
    \/ QUnmount
    \/ \E i \in 1..MaxActs : QCleanupAgain(i)
    \/ \E i \in 1..MaxActs, o \in FetcherOutcomes : QSettle(i, o)

\* ------------------------------------------------------------ fetchUsers
\* What the network does with GET /api/v1/user when the request is not
\* aborted: a response (ok or not, with a parsed JSON body) or no response.
UserLists == {<<>>, <<"u1">>, <<"u1", "u2">>}

Undefined == <<"undefined">>

ArrayBody(xs) == [isArray |-> TRUE, items |-> xs, data |-> Undefined]

ObjectBody(d) == [isArray |-> FALSE, items |-> <<>>, data |-> d]

Bodies ==
    {ArrayBody(xs) : xs \in UserLists}
        \cup {ObjectBody(d) : d \in UserLists \cup {Undefined}}

Statuses == {401, 404, 500}

Response(isOk, st, b) == [kind |-> "response", ok |-> isOk, status |-> st, body |-> b]

NetworkError == [kind |-> "networkError", ok |-> FALSE, status |-> 0, body |-> ArrayBody(<<>>)]

\* fetch is the host's global: a replaced fetch (a test double, a wrapper)
\* may reject with a value that is no Error.
FetchRejectsNonError ==
    [kind |-> "rejectNonError", ok |-> FALSE, status |-> 0, body |-> ArrayBody(<<>>)]

NetOutcomes ==
    {Response(TRUE, 200, b) : b \in Bodies}
        \cup {Response(FALSE, st, ArrayBody(<<>>)) : st \in Statuses}
        \cup {NetworkError, FetchRejectsNonError}

\* `HTTP Error: ${response.status} ${response.statusText}`
HttpErrorMessage(st) ==
    CASE st = 401 -> "HTTP Error: 401 Unauthorized"
      [] st = 404 -> "HTTP Error: 404 Not Found"
      [] st = 500 -> "HTTP Error: 500 Internal Server Error"
      [] OTHER -> "HTTP Error"

UResolved(xs) ==
    [kind |-> "resolve", value |-> xs, isError |-> FALSE, name |-> Null, message |-> Null]

URejected(nm, msg) ==
    [kind |-> "reject", value |-> <<>>, isError |-> TRUE, name |-> nm, message |-> msg]

UNonError ==
    [kind |-> "reject", value |-> <<>>, isError |-> FALSE, name |-> Null, message |-> "thrown"]

UPending ==
    [kind |-> "pending", value |-> <<>>, isError |-> FALSE, name |-> Null, message |-> Null]

\* Array.isArray(result) ? result : result.data || []
EnsureArray(b) ==
    IF b.isArray THEN b.items
    ELSE IF b.data # Undefined THEN b.data ELSE <<>>

\* fetchUsers({signal}) up to response.json(): fetch rejects with an
\* AbortError once the signal is aborted and with a TypeError when the network
\* fails; a response that is not ok is thrown as an Error.  UPending stands
\* for "goes on to response.json()".
FetchUsersResponse(net, aborted) ==
    IF aborted THEN URejected("AbortError", "The operation was aborted.")
    ELSE IF net.kind = "networkError" THEN URejected("TypeError", "Failed to fetch")
    ELSE IF net.kind = "rejectNonError" THEN UNonError
    ELSE IF ~net.ok THEN URejected("Error", HttpErrorMessage(net.status))
    ELSE UPending

\* fetchUsers from response.json() on: reading the body rejects with an
\* AbortError when the signal was aborted meanwhile.
FetchUsersBody(b, aborted) ==
    IF aborted THEN URejected("AbortError", "The operation was aborted.")
    ELSE UResolved(EnsureArray(b))

\* ------------------------------------------------------------ example fetchers
AllItems == <<"u1", "u2", "u3", "u4", "u5", "u6", "u7", "u8">>

ItemLists == {SubSeq(AllItems, 1, n) : n \in 0..MaxItems}

\* A data property that is an object, not an array: { data: { users: [...] } }.
DataObject == <<"[object Object]">>

\* Array.isArray(v) of a value a fetcher resolves with.
IsArray(v) == v # Undefined /\ v # DataObject

JsonBodies ==
    {ArrayBody(xs) : xs \in ItemLists}
        \cup {ObjectBody(d) : d \in UserLists \cup {Undefined, DataObject}}

\* What fetch can do for one call: answer 200 with a JSON body, answer with an
\* error status (and a JSON body of its own), or reject.
FetcherNets ==
    {Response(TRUE, 200, b) : b \in JsonBodies}
        \cup {Response(FALSE, st, b) : st \in Statuses, b \in JsonBodies}
        \cup {NetworkError, FetchRejectsNonError}

\* A fulfilled promise of any JSON value.
JResolved(v) ==
    [kind |-> "resolve", value |-> v, isError |-> FALSE, name |-> Null, message |-> Null]

\* getUsers that hands on whatever body the response has.
GetUsers_NoOkCheck(net) ==
    IF net.kind = "networkError" THEN URejected("TypeError", "Failed to fetch")
    ELSE IF net.kind = "rejectNonError" THEN UNonError
    ELSE JResolved(net.body)

\* UserApiService.getUsers(): no signal; a response that is not ok is thrown
\* as an Error; the parsed body is returned as it is.
GetUsers(net) ==
    IF net.kind = "networkError" THEN URejected("TypeError", "Failed to fetch")
    ELSE IF net.kind = "rejectNonError" THEN UNonError
    ELSE IF ~net.ok THEN URejected("Error", "Network response was not ok")
    ELSE JResolved(net.body)

\* data.slice(0, 5)
MenuLimit == 5

Slice(xs, n) == SubSeq(xs, 1, IF Len(xs) < n THEN Len(xs) ELSE n)

\* (item) => ({ id: item.id, title: item.title, path: `/menu/${item.id}` })
ToMenu(item) == [id |-> item, title |-> item, path |-> <<"/menu/", item>>]

\* MenuApiService.getMenus(): no signal; a response that is not ok is thrown
\* as an Error; a body that is no array has no slice, which is a TypeError;
\* of an array the first five items become menus.
GetMenus(net) ==
    IF net.kind = "networkError" THEN URejected("TypeError", "Failed to fetch")
    ELSE IF net.kind = "rejectNonError" THEN UNonError
    ELSE IF ~net.ok THEN URejected("Error", "Network response was not ok")
    ELSE IF ~net.body.isArray THEN URejected("TypeError", "data.slice is not a function")
    ELSE JResolved([i \in 1..Len(Slice(net.body.items, MenuLimit)) |->
                        ToMenu(Slice(net.body.items, MenuLimit)[i])])

NoCall ==
    [fetcher |-> "none", net |-> NetworkError, aborted |-> FALSE,
     pc |-> "idle", outcome |-> UPending]

FInit == fCall = NoCall

\* fetchUsers({signal}) is called and fetch settles.
FFetchUsers(net, isAborted) ==
    /\ fCall.pc = "idle"
    /\ fCall' = [fetcher |-> "fetchUsers", net |-> net, aborted |-> isAborted,
                 pc |-> IF FetchUsersResponse(net, isAborted) = UPending
                        THEN "json" ELSE "done",
                 outcome |-> FetchUsersResponse(net, isAborted)]
    /\ UNCHANGED fOthers

\* response.json() of fetchUsers settles; the signal may have been aborted
\* since the response arrived.
FFetchUsersJson(isAborted) ==
    /\ fCall.pc = "json"
    /\ fCall' = [fCall EXCEPT !.aborted = isAborted, !.pc = "done",
                              !.outcome = FetchUsersBody(fCall.net.body, isAborted)]
    /\ UNCHANGED fOthers

\* new UserApiService().getUsers() is called and settles.
FGetUsers(net) ==
    /\ fCall.pc = "idle"
    /\ fCall' = [fetcher |-> "getUsers", net |-> net, aborted |-> FALSE,
                 pc |-> "done", outcome |-> GetUsers(net)]
    /\ UNCHANGED fOthers

\* new MenuApiService().getMenus() is called and settles.
FGetMenus(net) ==
    /\ fCall.pc = "idle"
    /\ fCall' = [fetcher |-> "getMenus", net |-> net, aborted |-> FALSE,
                 pc |-> "done", outcome |-> GetMenus(net)]
    /\ UNCHANGED fOthers

\* The caller has the result; the next call can be made.
FNextCall ==
    /\ fCall.pc = "done"
    /\ fCall' = NoCall
    /\ UNCHANGED fOthers

FNext ==
    \/ \E net \in FetcherNets, isAborted \in BOOLEAN : FFetchUsers(net, isAborted)
    \/ \E isAborted \in BOOLEAN : FFetchUsersJson(isAborted)
    \/ \E net \in FetcherNets : FGetUsers(net)
    \/ \E net \in FetcherNets : FGetMenus(net)
    \/ FNextCall

\* ------------------------------------------------------------ Modal
\* An optional boolean prop: left out, true or false.
Omitted == "omitted"

Flags == {Omitted, "true", "false"}

\* core/constants DEFAULTS, the two the Modal's behaviour depends on.
DEFAULTS == [MODAL_CLOSE_ON_BACKDROP_CLICK |-> TRUE, MODAL_CLOSE_ON_ESC |-> TRUE]

\* A destructuring default: prop = d.
Default(p, d) == IF p = Omitted THEN d ELSE p = "true"

Callbacks == {"closeA", "closeB"}

ModalProps ==
    [isOpen : BOOLEAN, closeOnEsc : Flags, closeOnBackdropClick : Flags,
     onClose : Callbacks]

CloseOnEsc(props) == Default(props.closeOnEsc, DEFAULTS.MODAL_CLOSE_ON_ESC)

CloseOnBackdropClick(props) ==
    Default(props.closeOnBackdropClick, DEFAULTS.MODAL_CLOSE_ON_BACKDROP_CLICK)

\* The ESC effect: the handlers it registers, each named by the onClose it
\* closes over.
EscEffect(props) ==
    IF ~props.isOpen \/ ~CloseOnEsc(props) THEN <<>> ELSE <<props.onClose>>

EscDeps(props) == <<props.isOpen, CloseOnEsc(props), props.onClose>>

\* listeners without one registration of h.
RemoveOne(listeners, h) ==
    IF \E i \in 1..Len(listeners) : listeners[i] = h
    THEN LET i == CHOOSE j \in 1..Len(listeners) : listeners[j] = h
         IN  SubSeq(listeners, 1, i - 1) \o SubSeq(listeners, i + 1, Len(listeners))
    ELSE listeners

\* An ESC effect that returns no cleanup.
EscCleanup_Keep(listeners, registered) == listeners

\* The ESC effect's cleanup: removeEventListener of the handler that run added.
EscCleanup(listeners, registered) ==
    IF registered = <<>> THEN listeners ELSE RemoveOne(listeners, registered[1])

\* A scroll effect that returns no cleanup.
ScrollCleanup_None(style, hasCleanup) == style

\* The scroll effect's cleanup, when the run returned one.
ScrollCleanup(style, hasCleanup) == IF hasCleanup THEN "unset" ELSE style

\* The scroll effect.
ScrollEffect(style, props) == IF props.isOpen THEN "hidden" ELSE style

ScrollDeps(props) == <<props.isOpen>>

NoEvent == [type |-> "none", key |-> "none", target |-> "none"]

MInit ==
    /\ mProps = [isOpen |-> FALSE, closeOnEsc |-> Omitted,
                 closeOnBackdropClick |-> Omitted, onClose |-> "closeA"]
    /\ mPhase = "unmounted"
    /\ mListeners = <<>>
    /\ mEscEffect = <<>>
    /\ mScrollCleanup = FALSE
    /\ overflow = ""
    /\ mEvent = NoEvent
    /\ mCalled = <<>>

\* <Modal {...props}/> mounts: first render, then both effects.
MMount(props) ==
    /\ mPhase = "unmounted"
    /\ mPhase' = "mounted"
    /\ mProps' = props
    /\ mListeners' = mListeners \o EscEffect(props)
    /\ mEscEffect' = EscEffect(props)
    /\ overflow' = ScrollEffect(overflow, props)
    /\ mScrollCleanup' = props.isOpen
    /\ mEvent' = NoEvent
    /\ mCalled' = <<>>
    /\ UNCHANGED mOthers

\* The parent renders the Modal with other props: of each effect whose deps
\* changed the cleanup runs, then the effect.
MRender(props) ==
    /\ mPhase = "mounted"
    /\ props # mProps
    /\ mProps' = props
    /\ IF EscDeps(props) # EscDeps(mProps)
       THEN /\ mListeners' = EscCleanup(mListeners, mEscEffect) \o EscEffect(props)
            /\ mEscEffect' = EscEffect(props)
       ELSE UNCHANGED <<mListeners, mEscEffect>>
    /\ IF ScrollDeps(props) # ScrollDeps(mProps)
       THEN /\ overflow' = ScrollEffect(ScrollCleanup(overflow, mScrollCleanup), props)
            /\ mScrollCleanup' = props.isOpen
       ELSE UNCHANGED <<overflow, mScrollCleanup>>
    /\ mEvent' = NoEvent
    /\ mCalled' = <<>>
    /\ UNCHANGED <<mPhase, mOthers>>

\* The Modal unmounts: the cleanups run.
MUnmount ==
    /\ mPhase = "mounted"
    /\ mPhase' = "unmounted"
    /\ mListeners' = EscCleanup(mListeners, mEscEffect)
    /\ mEscEffect' = <<>>
    /\ overflow' = ScrollCleanup(overflow, mScrollCleanup)
    /\ mScrollCleanup' = FALSE
    /\ mEvent' = NoEvent
    /\ mCalled' = <<>>
    /\ UNCHANGED <<mProps, mOthers>>

Keys == {"Escape", "Enter"}

\* A key pressed in the page has its target inside document; an event
\* dispatched on window itself never passes document.
KeyTargets == {"body", "window"}

\* A keydown event: every listener on document is called, and calls the
\* onClose it closes over when the key is KEYBOARD_KEYS.ESCAPE.
MKeydown(key, target) ==
    /\ mEvent' = [type |-> "keydown", key |-> key, target |-> target]
    /\ mCalled' = IF target = "body" /\ key = "Escape" THEN mListeners ELSE <<>>
    /\ UNCHANGED <<mProps, mPhase, mListeners, mEscEffect, mScrollCleanup, overflow,
                   mOthers>>

\* The overlay, something inside the dialog and the header's close button.
ClickTargets == {"backdrop", "content", "closeButton"}

\* A click on the rendered Modal.  The button's onClick is onClose; every
\* click bubbles to the overlay's handleBackdropClick, where e.target is
\* e.currentTarget only for a click on the overlay itself.
MClick(target) ==
    /\ mPhase = "mounted"
    /\ mProps.isOpen
    /\ mEvent' = [type |-> "click", key |-> "none", target |-> target]
    /\ mCalled' = (IF target = "closeButton" THEN <<mProps.onClose>> ELSE <<>>)
                    \o (IF CloseOnBackdropClick(mProps) /\ target = "backdrop"
                        THEN <<mProps.onClose>> ELSE <<>>)
    /\ UNCHANGED <<mProps, mPhase, mListeners, mEscEffect, mScrollCleanup, overflow,
                   mOthers>>

MNext ==
    \/ \E props \in ModalProps : MMount(props)
    \/ \E props \in ModalProps : MRender(props)
    \/ MUnmount
    \/ \E key \in Keys, target \in KeyTargets : MKeydown(key, target)
    \/ \E target \in ClickTargets : MClick(target)

\* ------------------------------------------------------------ button themes
\* A theme maps variant names to styles; a style is named by its
\* backgroundColor.
DEFAULT_BUTTON_THEME ==
    [primary |-> "#007bff", secondary |-> "#6c757d", danger |-> "#dc3545"]

Styles == {"#007bff", "#28a745"}

\* The themes with variants among `names`.
Themes(names) == UNION {[S -> Styles] : S \in SUBSET names}

EmptyTheme == [v \in {} |-> "#007bff"]

\* An optional argument: left out, or a theme object.
OmittedArg == [given |-> FALSE, theme |-> EmptyTheme]

Arg(t) == [given |-> TRUE, theme |-> t]

CustomArgs == {OmittedArg} \cup {Arg(t) : t \in Themes({"primary", "success", "warning"})}

BaseArgs == {OmittedArg} \cup {Arg(t) : t \in Themes({"primary", "danger"})}

\* { ...a, ...b }: a new object with a's properties, then b's over them.
Spread(a, b) ==
    [v \in (DOMAIN a) \cup (DOMAIN b) |-> IF v \in DOMAIN b THEN b[v] ELSE a[v]]

\* mergeButtonThemes as Object.assign(baseTheme, customTheme): the base
\* object itself takes the custom variants.
MergeButtonThemes_Assign(customTheme, baseTheme) ==
    [result |-> Spread(baseTheme, customTheme),
     customTheme |-> customTheme,
     baseTheme |-> Spread(baseTheme, customTheme)]

\* mergeButtonThemes(customTheme, baseTheme): the object it returns and the
\* two argument objects as the call leaves them.  Spreading undefined adds
\* nothing.
MergeButtonThemes(customTheme, baseTheme) ==
    [result |-> Spread(baseTheme, customTheme),
     customTheme |-> customTheme,
     baseTheme |-> baseTheme]

NoMerge ==
    [pc |-> "idle", custom |-> OmittedArg, base |-> OmittedArg,
     result |-> EmptyTheme, customAfter |-> EmptyTheme, baseAfter |-> EmptyTheme]

TInit ==
    /\ defaultTheme = DEFAULT_BUTTON_THEME
    /\ tCall = NoMerge

\* mergeButtonThemes(custom, base) is called; an omitted base is the
\* DEFAULT_BUTTON_THEME object, an omitted custom is undefined.
TMerge(custom, base) ==
    /\ tCall.pc = "idle"
    /\ LET baseTheme == IF base.given THEN base.theme ELSE defaultTheme
           out == MergeButtonThemes(custom.theme, baseTheme)
       IN  /\ tCall' = [pc |-> "done", custom |-> custom, base |-> base,
                        result |-> out.result,
                        customAfter |-> out.customTheme,
                        baseAfter |-> out.baseTheme]
           /\ defaultTheme' = IF base.given THEN defaultTheme ELSE out.baseTheme
    /\ UNCHANGED tOthers

\* The caller has the merged theme; the next call can be made.
TNextCall ==
    /\ tCall.pc = "done"
    /\ tCall' = NoMerge
    /\ UNCHANGED <<defaultTheme, tOthers>>

TNext ==
    \/ \E custom \in CustomArgs, base \in BaseArgs : TMerge(custom, base)
    \/ TNextCall

\* ------------------------------------------------------------ getVariantStyle
\* variant: string | undefined.
NoVariant == [given |-> FALSE, name |-> ""]

Variant(n) == [given |-> TRUE, name |-> n]

VariantArgs ==
    {NoVariant} \cup {Variant(n) : n \in {"", "primary", "success", "danger", "ghost"}}

ThemeArgs == {DEFAULT_BUTTON_THEME} \cup Themes({"primary", "success", "danger"})

\* ButtonVariantStyle | undefined.
UndefinedStyle == [defined |-> FALSE, style |-> ""]

Style(st) == [defined |-> TRUE, style |-> st]

\* getVariantStyle(variant, theme): undefined for no variant (undefined or
\* the empty string), else theme[variant], which is undefined for a variant
\* the theme has not.
GetVariantStyle(variant, theme) ==
    IF ~variant.given \/ variant.name = "" THEN UndefinedStyle
    ELSE IF variant.name \in DOMAIN theme THEN Style(theme[variant.name])
    ELSE UndefinedStyle

NoStyleCall ==
    [pc |-> "idle", variant |-> NoVariant, theme |-> EmptyTheme,
     result |-> UndefinedStyle]

SInit == styleCall = NoStyleCall

\* Button renders: getVariantStyle(variant, theme).
SGetVariantStyle(variant, theme) ==
    /\ styleCall.pc = "idle"
    /\ styleCall' = [pc |-> "done", variant |-> variant, theme |-> theme,
                     result |-> GetVariantStyle(variant, theme)]
    /\ UNCHANGED sOthers

\* Button has its variantStyle; the next render can call.
SNextCall ==
    /\ styleCall.pc = "done"
    /\ styleCall' = NoStyleCall
    /\ UNCHANGED sOthers

SNext ==
    \/ \E variant \in VariantArgs, theme \in ThemeArgs : SGetVariantStyle(variant, theme)
    \/ SNextCall

\* ------------------------------------------------------------ List
\* T extends Record<string, any>: an item may have an id (0 is one) or none.
ListItems ==
    {[hasId |-> TRUE, id |-> 0, name |-> "Alice"],
     [hasId |-> TRUE, id |-> 7, name |-> "Bob"],
     [hasId |-> FALSE, id |-> 0, name |-> "Carol"]}

ItemSeqs == UNION {[1..n -> ListItems] : n \in 0..MaxListLen}

\* keyExtractor?: left out, or the documentation's (item) => `user-${item.id}`.
KeyExtractors == {Omitted, "userId"}

KeyExtractor(item, index) ==
    "user-" \o (IF item.hasId THEN ToString(item.id) ELSE "undefined")

\* emptyMessage?: left out or given.
EmptyMessages == {Omitted, "No items"}

LIST_EMPTY_MESSAGE == "No items available"

ListProps ==
    [items : ItemSeqs, keyExtractor : KeyExtractors, emptyMessage : EmptyMessages]

\* renderItem(item, index): what the caller's render prop returns.
RenderItem(item, index) == [text |-> item.name, at |-> index]

\* (item as any).id || index
DefaultKey_Or(item, index) ==
    IF item.hasId /\ item.id # 0 THEN ToString(item.id) ELSE ToString(index)

\* (item as any).id ?? index, as the string React makes of a key.
DefaultKey(item, index) ==
    IF item.hasId THEN ToString(item.id) ELSE ToString(index)

\* The <li> of items[i]; Array.prototype.map counts from 0.
ListEntry(props, i) ==
    [key |-> IF props.keyExtractor # Omitted
             THEN KeyExtractor(props.items[i], i - 1)
             ELSE DefaultKey(props.items[i], i - 1),
     content |-> RenderItem(props.items[i], i - 1)]

\* List(props): the element it returns and the renderItem calls it makes.
List(props) ==
    IF Len(props.items) = 0
    THEN [kind |-> "empty",
          message |-> IF props.emptyMessage = Omitted THEN LIST_EMPTY_MESSAGE
                      ELSE props.emptyMessage,
          entries |-> <<>>,
          calls |-> <<>>]
    ELSE [kind |-> "list",
          message |-> "",
          entries |-> [i \in 1..Len(props.items) |-> ListEntry(props, i)],
          calls |-> [i \in 1..Len(props.items) |->
                        [item |-> props.items[i], index |-> i - 1]]]

NoListCall ==
    [pc |-> "idle",
     props |-> [items |-> <<>>, keyExtractor |-> Omitted, emptyMessage |-> Omitted],
     out |-> [kind |-> "none", message |-> "", entries |-> <<>>, calls |-> <<>>]]

ListInit == listCall = NoListCall

\* <List {...props}/> renders.
ListRender(props) ==
    /\ listCall.pc = "idle"
    /\ listCall' = [pc |-> "done", props |-> props, out |-> List(props)]
    /\ UNCHANGED listOthers

\* React has the element; the next render can start.
ListNextCall ==
    /\ listCall.pc = "done"
    /\ listCall' = NoListCall
    /\ UNCHANGED listOthers

ListNext ==
    \/ \E props \in ListProps : ListRender(props)
    \/ ListNextCall

\* ------------------------------------------------------------ ConsoleLogger
LogMessages == {"m1", "m2"}

\* new ConsoleLogger(onLog): _logs = [].
NewLogger == [heap |-> << <<>> >>, logs |-> 1, handed |-> <<>>]

\* log that hands _logs itself to onLog.
Log_NoCopy(lg, m) ==
    [heap |-> [lg.heap EXCEPT ![lg.logs] = Append(@, m)],
     logs |-> lg.logs,
     handed |-> Append(lg.handed, lg.logs)]

\* log(message): push onto _logs, then onLog([...this._logs]), a new array.
Log(lg, m) ==
    LET pushed == [lg.heap EXCEPT ![lg.logs] = Append(@, m)]
    IN  [heap |-> Append(pushed, pushed[lg.logs]),
         logs |-> lg.logs,
         handed |-> Append(lg.handed, Len(pushed) + 1)]

\* clear(): _logs = [], a new array, then onLog([]), another new array.
Clear(lg) ==
    [heap |-> lg.heap \o << <<>>, <<>> >>,
     logs |-> Len(lg.heap) + 1,
     handed |-> Append(lg.handed, Len(lg.heap) + 2)]

CInit ==
    /\ logger = NewLogger
    /\ sinceClear = <<>>
    /\ snapshots = <<>>

\* logger.log(m)
CLog(m) ==
    /\ Len(logger.handed) < MaxLogCalls
    /\ logger' = Log(logger, m)
    /\ sinceClear' = Append(sinceClear, m)
    /\ snapshots' = Append(snapshots, logger'.heap[logger'.handed[Len(logger'.handed)]])
    /\ UNCHANGED cOthers

\* logger.clear()
CClear ==
    /\ Len(logger.handed) < MaxLogCalls
    /\ logger' = Clear(logger)
    /\ sinceClear' = <<>>
    /\ snapshots' = Append(snapshots, logger'.heap[logger'.handed[Len(logger'.handed)]])
    /\ UNCHANGED cOthers

CNext ==
    \/ \E m \in LogMessages : CLog(m)
    \/ CClear

\* ------------------------------------------------------------ AvatarUploader
Providers == {"LocalStorageProvider", "S3StorageProvider"}

FileNames == {"a.png", "b.png"}

\* e.target.files: null, or a FileList (empty after a cancelled selection).
NullFiles == [isNull |-> TRUE, list |-> <<>>]

FileList(names) == [isNull |-> FALSE, list |-> names]

FileInputs ==
    {NullFiles} \cup {FileList(names) : names \in UNION {[1..n -> FileNames] : n \in 0..MaxFiles}}

\* files[0]: a File, or undefined when the list has none.
NoFile == [defined |-> FALSE, name |-> ""]

File(n) == [defined |-> TRUE, name |-> n]

First(files) == IF Len(files.list) >= 1 THEN File(files.list[1]) ELSE NoFile

\* storage.upload(file): both providers read file.name, which throws a
\* TypeError for undefined, inside an async method: a rejected promise.
Upload(provider, file) ==
    IF ~file.defined
    THEN [kind |-> "reject", url |-> "", name |-> "TypeError"]
    ELSE [kind |-> "resolve",
          url |-> (IF provider = "LocalStorageProvider" THEN "/uploads/"
                   ELSE "https://s3.amazonaws.com/bucket/") \o file.name,
          name |-> ""]

\* handleUpload(e): the arguments of its storage.upload calls, how the
\* promise it returns settles, and what it logs.
HandleUpload(provider, files) ==
    IF files.isNull
    THEN [files |-> files, calls |-> <<>>, returned |-> "fulfilled", logged |-> <<>>]
    ELSE LET r == Upload(provider, First(files))
         IN  [files |-> files,
              calls |-> <<First(files)>>,
              returned |-> IF r.kind = "resolve" THEN "fulfilled" ELSE "rejected",
              logged |-> IF r.kind = "resolve" THEN <<r.url>> ELSE <<>>]

UInit == uploader = [provider |-> "none", changes |-> <<>>]

\* <AvatarUploader storage={new Provider()} /> mounts.
UMount(provider) ==
    /\ uploader.provider = "none"
    /\ uploader' = [uploader EXCEPT !.provider = provider]
    /\ UNCHANGED uOthers

\* The input fires a change event and handleUpload runs to its end.
UChange(files) ==
    /\ uploader.provider # "none"
    /\ Len(uploader.changes) < MaxChanges
    /\ uploader' = [uploader EXCEPT
                      !.changes = Append(@, HandleUpload(uploader.provider, files))]
    /\ UNCHANGED uOthers

UNext ==
    \/ \E provider \in Providers : UMount(provider)
    \/ \E files \in FileInputs : UChange(files)

\* ------------------------------------------------------------ useGetUser (inline)
\* The inline variant's try block up to response.json(): the same fetch with
\* the same signal, and the same throw for a response that is not ok.
InlineResponse(net, aborted) ==
    IF aborted THEN URejected("AbortError", "The operation was aborted.")
    ELSE IF net.kind = "networkError" THEN URejected("TypeError", "Failed to fetch")
    ELSE IF net.kind = "rejectNonError" THEN UNonError
    ELSE IF ~net.ok THEN URejected("Error", HttpErrorMessage(net.status))
    ELSE UPending

\* An inline variant that takes only an array body: result.data is dropped.
InlineBody_ArrayOnly(b, aborted) ==
    IF aborted THEN URejected("AbortError", "The operation was aborted.")
    ELSE UResolved(IF b.isArray THEN b.items ELSE <<>>)

\* The inline variant's try block from response.json() to `users`.
InlineBody(b, aborted) ==
    IF aborted THEN URejected("AbortError", "The operation was aborted.")
    ELSE UResolved(IF b.isArray THEN b.items
                   ELSE IF b.data # Undefined THEN b.data ELSE <<>>)

\* The inline variant's setters: the end of the try, the catch, the finally.
InlineSettle(st, o) ==
    IF o.kind = "resolve"
    THEN [st EXCEPT !.data = o.value, !.errors = <<>>, !.loading = FALSE]
    ELSE IF o.isError /\ o.name = "AbortError"
    THEN [st EXCEPT !.loading = FALSE]
    ELSE [st EXCEPT
            !.errors = <<IF o.isError THEN o.message ELSE "An unknown error occurred">>,
            !.data = <<>>,
            !.loading = FALSE]

\* ------------------------------------------------------------ useGetUser
GetUserInit == [loading |-> TRUE, data |-> <<>>, errors |-> <<>>]

\* One run of the effect: its AbortController, how far fetchUsers has got
\* (awaiting fetch, awaiting response.json(), done) and the body received.
NewUserEffect ==
    [fetcher |-> "fetchUsers", aborted |-> FALSE, pc |-> "pending",
     body |-> ArrayBody(<<>>), outcome |-> UPending]

\* loadUsers from the await on: try, catch, finally.
LoadUsersSettle(st, o) ==
    IF o.kind = "resolve"
    THEN [st EXCEPT !.data = o.value, !.errors = <<>>, !.loading = FALSE]
    ELSE IF o.isError /\ o.name = "AbortError"
    THEN [st EXCEPT !.loading = FALSE]
    ELSE [st EXCEPT !.errors = <<ErrorMessage(o)>>, !.data = <<>>, !.loading = FALSE]

GInit ==
    /\ getUser = GetUserInit
    /\ inlineUser = GetUserInit
    /\ gEffects = <<>>
    /\ gPhase = "rendered"

\* The effect's run after the first render: loadUsers() up to its await.
GRunEffect ==
    /\ gPhase = "rendered"
    /\ gPhase' = "mounted"
    /\ gEffects' = <<NewUserEffect>>
    /\ UNCHANGED <<getUser, inlineUser, gOthers>>

\* Strict Mode replays the effect right after the mount: cleanup, effect.
GStrictReplay ==
    /\ gPhase = "mounted"
    /\ Len(gEffects) = 1
    /\ gEffects[1].pc = "pending"
    /\ Len(gEffects) < MaxActs
    /\ gEffects' = Append(AbortLatest(gEffects), NewUserEffect)
    /\ UNCHANGED <<getUser, inlineUser, gPhase, gOthers>>

GUnmount ==
    /\ gPhase = "mounted"
    /\ gPhase' = "unmounted"
    /\ gEffects' = AbortLatest(gEffects)
    /\ UNCHANGED <<getUser, inlineUser, gOthers>>

\* The fetch of activation i settles with net (or with its abort): either
\* fetchUsers rejects and loadUsers resumes in its catch, or fetchUsers goes
\* on to read the body.
GFetchSettle(i, net) ==
    /\ i \in 1..Len(gEffects)
    /\ gEffects[i].pc = "pending"
    /\ LET o == FetchUsersResponse(net, gEffects[i].aborted)
           oi == InlineResponse(net, gEffects[i].aborted)
       IN
         /\ IF o.kind = "pending"
            THEN /\ gEffects' = [gEffects EXCEPT ![i].pc = "json", ![i].body = net.body]
                 /\ UNCHANGED getUser
            ELSE /\ gEffects' = SettleEffect(gEffects, i, o)
                 /\ getUser' = SetState(gPhase, getUser, LoadUsersSettle(getUser, o))
         /\ inlineUser' =
               IF oi.kind = "pending" THEN inlineUser
               ELSE SetState(gPhase, inlineUser, InlineSettle(inlineUser, oi))
    /\ UNCHANGED <<gPhase, gOthers>>

\* response.json() of activation i settles, fetchUsers returns (or rejects
\* with the abort) and loadUsers resumes.
GJsonSettle(i) ==
    /\ i \in 1..Len(gEffects)
    /\ gEffects[i].pc = "json"
    /\ LET o == FetchUsersBody(gEffects[i].body, gEffects[i].aborted)
           oi == InlineBody(gEffects[i].body, gEffects[i].aborted)
       IN
         /\ gEffects' = SettleEffect(gEffects, i, o)
         /\ getUser' = SetState(gPhase, getUser, LoadUsersSettle(getUser, o))
         /\ inlineUser' = SetState(gPhase, inlineUser, InlineSettle(inlineUser, oi))
    /\ UNCHANGED <<gPhase, gOthers>>

GNext ==
    \/ GRunEffect
    \/ GStrictReplay
    \/ GUnmount
    \/ \E i \in 1..MaxActs, net \in NetOutcomes : GFetchSettle(i, net)
    \/ \E i \in 1..MaxActs : GJsonSettle(i)

\* ------------------------------------------------------------ useLoadData
DepsValues == {"serviceA", "serviceB"}

LoadInit == [data |-> Null, loading |-> TRUE, error |-> Null]

\* One run of the effect: its closure's isMounted flag and its promise.
NewLoad(d) ==
    [deps |-> d, isMounted |-> TRUE, pc |-> "pending", outcome |-> Pending,
     returned |-> "pending", calls |-> 1]

\* The cleanup of the latest effect: isMounted = false.
UnmountLatest(effects) ==
    IF effects = <<>> THEN effects
    ELSE [effects EXCEPT ![Len(effects)].isMounted = FALSE]

\* load up to its await: setLoading(true); setError(null).
LoadStart(st) == [st EXCEPT !.loading = TRUE, !.error = Null]

\* The try block without its isMounted test.
LoadTry_Unguarded(st, isMounted, v) == [st EXCEPT !.data = v]

\* if (isMounted) setData(result)
LoadTry(st, isMounted, v) == IF isMounted THEN [st EXCEPT !.data = v] ELSE st

\* if (isMounted) setError(e instanceof Error ? e.message : 'Failed to fetch data')
LoadCatch(st, isMounted, o) ==
    IF isMounted
    THEN [st EXCEPT !.error = IF o.isError THEN o.message ELSE "Failed to fetch data"]
    ELSE st

\* if (isMounted) setLoading(false)
LoadFinally(st, isMounted) == IF isMounted THEN [st EXCEPT !.loading = FALSE] ELSE st

\* catch (e) { ... }: it takes every thrown value and rethrows none.
LoadCatchHandles(o) == TRUE

\* How the promise of load() settles.
LoadReturns(o) ==
    IF o.kind = "resolve" \/ LoadCatchHandles(o) THEN "fulfilled" ELSE "rejected"

\* load from the await on.
LoadSettle(st, isMounted, o) ==
    IF o.kind = "resolve"
    THEN LoadFinally(LoadTry(st, isMounted, o.value), isMounted)
    ELSE LoadFinally(LoadCatch(st, isMounted, o), isMounted)

\* A re-render with deps d after one with deps prev: }, deps).  UserList
\* passes [userService]; the fetcher arrow it creates anew is no dep.
LRerender(effects, prev, d) ==
    IF <<prev>> # <<d>> THEN Append(UnmountLatest(effects), NewLoad(d)) ELSE effects

LInit ==
    /\ loadState = LoadInit
    /\ lEffects = <<>>
    /\ lPhase = "rendered"
    /\ lDeps \in DepsValues

LRunEffect ==
    /\ lPhase = "rendered"
    /\ lPhase' = "mounted"
    /\ lEffects' = <<NewLoad(lDeps)>>
    /\ loadState' = LoadStart(loadState)
    /\ UNCHANGED <<lDeps, lOthers>>

\* Strict Mode replays the effect right after the mount: cleanup, effect.
LStrictReplay ==
    /\ lPhase = "mounted"
    /\ Len(lEffects) = 1
    /\ lEffects[1].pc = "pending"
    /\ Len(lEffects) < MaxActs
    /\ lEffects' = Append(UnmountLatest(lEffects), NewLoad(lDeps))
    /\ loadState' = LoadStart(loadState)
    /\ UNCHANGED <<lPhase, lDeps, lOthers>>

\* A render with changed deps: cleanup of the old effect, then the effect.
LChangeDeps(d) ==
    /\ lPhase = "mounted"
    /\ d # lDeps
    /\ Len(lEffects) < MaxActs
    /\ lDeps' = d
    /\ lEffects' = Append(UnmountLatest(lEffects), NewLoad(d))
    /\ loadState' = LoadStart(loadState)
    /\ UNCHANGED <<lPhase, lOthers>>

LUnmount ==
    /\ lPhase = "mounted"
    /\ lPhase' = "unmounted"
    /\ lEffects' = UnmountLatest(lEffects)
    /\ UNCHANGED <<loadState, lDeps, lOthers>>

\* The fetch of activation i settles with o, load resumes, and the component
\* renders again with the deps it had.
LSettle(i, o) ==
    /\ i \in 1..Len(lEffects)
    /\ lEffects[i].pc = "pending"
    /\ lEffects' = LRerender(Return(SettleEffect(lEffects, i, o), i, LoadReturns(o)),
                             lDeps, lDeps)
    /\ loadState' = SetState(lPhase, loadState, LoadSettle(loadState, lEffects[i].isMounted, o))
    /\ UNCHANGED <<lPhase, lDeps, lOthers>>

LNext ==
    \/ LRunEffect
    \/ LStrictReplay
    \/ \E d \in DepsValues : LChangeDeps(d)
    \/ LUnmount
    \/ \E i \in 1..MaxActs, o \in FetcherOutcomes : LSettle(i, o)

\* ------------------------------------------------------------ specifications
\* Every hook instance after its first render.
Init == QInit /\ GInit /\ LInit /\ FInit /\ MInit /\ TInit /\ SInit /\ ListInit /\ CInit /\ UInit

\* One specification per hook instance; the other instances stay as rendered.
InitQuery == Init /\ lDeps = "serviceA"

InitLoadData == Init /\ qFetcher = "fetcherA"

InitGetUser == Init /\ qFetcher = "fetcherA" /\ lDeps = "serviceA"

SpecQuery == InitQuery /\ [][QNext]_vars

SpecGetUser == InitGetUser /\ [][GNext]_vars

SpecLoadData == InitLoadData /\ [][LNext]_vars

\* The example fetchers, called one at a time.
SpecFetchers == InitGetUser /\ [][FNext]_vars

\* One Modal under a parent that mounts it, renders it with any props and
\* unmounts it, and a user who presses keys and clicks.
SpecModal == InitGetUser /\ [][MNext]_vars

\* Calls of mergeButtonThemes, one at a time.
SpecThemes == InitGetUser /\ [][TNext]_vars

\* Calls of getVariantStyle, one at a time.
SpecVariantStyle == InitGetUser /\ [][SNext]_vars

\* Renders of List, one at a time.
SpecList == InitGetUser /\ [][ListNext]_vars

\* ------------------------------------------------------------ SingleResponsiblePrinciple views
\* useQuery(fetchUsers): T is User[]; of the values a fetch resolves with,
\* V1 is the empty array and V2 an array of users.
EmptyValue == "V1"

\* data.length of a value that is not null.
DataLength(d) == IF d = EmptyValue THEN 0 ELSE 2

\* The useQuery component with an EmptyData test that leaves out
\* errors.length === 0.
QViews_EmptyIgnoresErrors(st) ==
    (IF st.loading THEN {"Loading"} ELSE {})
        \cup (IF ~st.loading /\ Len(st.errors) > 0 THEN {"UserErrors"} ELSE {})
        \cup (IF ~st.loading /\ (st.data = Null \/ DataLength(st.data) = 0)
              THEN {"EmptyData"} ELSE {})
        \cup (IF ~st.loading /\ st.data # Null /\ DataLength(st.data) > 0
              THEN {"UserList"} ELSE {})

\* The views the useQuery component renders for the hook's result.
QViews(st) ==
    (IF st.loading THEN {"Loading"} ELSE {})
        \cup (IF ~st.loading /\ Len(st.errors) > 0 THEN {"UserErrors"} ELSE {})
        \cup (IF ~st.loading /\ Len(st.errors) = 0
                    /\ (st.data = Null \/ DataLength(st.data) = 0)
              THEN {"EmptyData"} ELSE {})
        \cup (IF ~st.loading /\ st.data # Null /\ DataLength(st.data) > 0
              THEN {"UserList"} ELSE {})

\* The views the useGetUser component renders for the hook's result.
GViews(st) ==
    (IF st.loading THEN {"Loading"} ELSE {})
        \cup (IF ~st.loading /\ Len(st.errors) > 0 THEN {"UserErrors"} ELSE {})
        \cup (IF ~st.loading /\ Len(st.errors) = 0 /\ Len(st.data) = 0
              THEN {"EmptyData"} ELSE {})
        \cup (IF ~st.loading /\ Len(st.errors) = 0 /\ Len(st.data) > 0
              THEN {"UserList"} ELSE {})

\* One ConsoleLogger and the calls made on it.
SpecLogger == InitGetUser /\ [][CNext]_vars

\* One AvatarUploader and the change events of its input.
SpecUploader == InitGetUser /\ [][UNext]_vars

\* The hook instances share no state: a behaviour of SpecHooks runs one of
\* them and leaves the others as rendered.
OnlyQuery == gPhase = "rendered" /\ lPhase = "rendered"

OnlyGetUser == qPhase = "rendered" /\ lPhase = "rendered"

OnlyLoadData == qPhase = "rendered" /\ gPhase = "rendered"

HNext ==
    \/ OnlyQuery /\ QNext
    \/ OnlyGetUser /\ GNext
    \/ OnlyLoadData /\ LNext

SpecHooks == Init /\ [][HNext]_vars

\* ------------------------------------------------------------ useQuery: claims
\* Activation i is the current one: the latest, and not cancelled.
QCurrent(i) == i = Len(qEffects) /\ ~qEffects[i].aborted /\ qPhase = "mounted"

\* This step settles the fetch of activation i.
QSettles(i) ==
    /\ i \in 1..Len(qEffects)
    /\ qEffects[i].pc = "pending"
    /\ qEffects'[i].pc = "done"

IsFailure(o) == o.kind = "reject" /\ ~(o.isError /\ o.name = "AbortError")

\* C1: with two activations, the second started before the first settled, the
\* state after both have settled is the second fetcher's outcome alone
\* (data = its value and no errors, or errors = [its message] and no data),
\* whatever the first one did and whenever it did it.
C1_FinalStateIsSecondOutcome ==
    (/\ qPhase = "mounted"
     /\ Len(qEffects) = 2
     /\ \A i \in 1..2 : qEffects[i].pc = "done")
    => LET o == qEffects[2].outcome IN
       /\ o.kind = "resolve"
            => query = [loading |-> FALSE, data |-> o.value, errors |-> <<>>]
       /\ (o.kind = "reject" /\ o.isError /\ o.name # "AbortError")
            => query = [loading |-> FALSE, data |-> Null, errors |-> <<o.message>>]

\* C2: once an activation's cleanup has run, the settlement of its fetch with
\* a value or with a non-abort error changes none of loading, data, errors.
C2_NoMutationAfterCleanup ==
    [][\A i \in 1..MaxActs :
          (/\ QSettles(i)
           /\ qEffects[i].aborted
           /\ \/ qEffects'[i].outcome.kind = "resolve"
              \/ IsFailure(qEffects'[i].outcome))
          => query' = query]_vars

\* C3: a fetch rejecting with an Error named AbortError changes no part of the
\* result: loading, data and errors keep their values.
C3_AbortErrorChangesNothing ==
    [][\A i \in 1..MaxActs :
          (QSettles(i) /\ qEffects'[i].outcome = AbortError)
          => query' = query]_vars

\* C5: while loading, data is null and errors is empty; once a settlement has
\* set loading to false, exactly one of data and errors is present.
C5_ResultInvariant ==
    /\ query.loading => (query.data = Null /\ query.errors = <<>>)
    /\ (~query.loading /\ \E i \in 1..Len(qEffects) : qEffects[i].pc = "done")
         => ((query.data # Null) # (query.errors # <<>>))

\* C6: when the current activation's fetch resolves with V, the result becomes
\* loading = false, data = V, errors = [] in that one step, whatever it held.
C6_ResolveStoresValue ==
    [][\A i \in 1..MaxActs :
          (QSettles(i) /\ QCurrent(i) /\ qEffects'[i].outcome.kind = "resolve")
          => query' = [loading |-> FALSE,
                       data |-> qEffects'[i].outcome.value,
                       errors |-> <<>>]]_vars

\* C6 witness: the current activation resolved with V1 after an earlier one
\* had failed, and the result is the success state.
C6_Witness ==
    /\ Len(qEffects) = 2
    /\ qEffects[1].pc = "done" /\ IsFailure(qEffects[1].outcome)
    /\ QCurrent(2)
    /\ qEffects[2].pc = "done" /\ qEffects[2].outcome = Resolved("V1")
    /\ query = [loading |-> FALSE, data |-> "V1", errors |-> <<>>]

\* C7: when the current activation's fetch rejects with an Error that is no
\* AbortError, the result becomes loading = false, errors = [message],
\* data = null, whatever data held.
C7_RejectStoresMessage ==
    [][\A i \in 1..MaxActs :
          (/\ QSettles(i) /\ QCurrent(i)
           /\ qEffects'[i].outcome.kind = "reject"
           /\ qEffects'[i].outcome.isError
           /\ qEffects'[i].outcome.name # "AbortError")
          => query' = [loading |-> FALSE,
                       data |-> Null,
                       errors |-> <<qEffects'[i].outcome.message>>]]_vars

\* C7 witness: the current activation failed with "boom" after an earlier one
\* had stored data, and the result is the error state with data cleared.
C7_Witness ==
    /\ Len(qEffects) = 2
    /\ qEffects[1].pc = "done" /\ qEffects[1].outcome.kind = "resolve"
    /\ QCurrent(2)
    /\ qEffects[2].pc = "done"
    /\ qEffects[2].outcome = Rejected(TRUE, "Error", "boom")
    /\ query = [loading |-> FALSE, data |-> Null, errors |-> <<"boom">>]

\* An earlier activation that was cancelled and is still in flight, was
\* cancelled and rejected with the AbortError, or failed.
QSpoiled(j) ==
    \/ qEffects[j].aborted /\ qEffects[j].pc = "pending"
    \/ qEffects[j].pc = "done" /\ qEffects[j].outcome.kind = "reject"

\* C10: after activation/cleanup cycles that include cancelled and failed
\* activations, a fresh activation that is not cancelled and whose fetch
\* resolves with V reaches loading = false, data = V, errors = [].
C10_FreshFetchAfterCycles ==
    [][\A i \in 2..MaxActs :
          (/\ QSettles(i) /\ QCurrent(i)
           /\ \E j \in 1..(i - 1) : QSpoiled(j)
           /\ qEffects'[i].outcome.kind = "resolve")
          => /\ ~query'.loading
             /\ query'.data = qEffects'[i].outcome.value
             /\ query'.errors = <<>>]_vars

\* C10 witness: the third activation succeeded after one that was cancelled in
\* flight and one that failed.
C10_Witness ==
    /\ Len(qEffects) = 3
    /\ qEffects[1].aborted /\ qEffects[1].outcome = AbortError
    /\ qEffects[2].pc = "done" /\ IsFailure(qEffects[2].outcome)
    /\ QCurrent(3)
    /\ qEffects[3].pc = "done" /\ qEffects[3].outcome = Resolved("V2")
    /\ query = [loading |-> FALSE, data |-> "V2", errors |-> <<>>]

\* ------------------------------------------------------------ useGetUser: claims
\* C4: under Strict Mode (mount, effect, cleanup, effect) the aborted first
\* request updates no state: until the second request settles the result is
\* still the initial one, with loading true.
C4_StrictModeFirstRequestSilent ==
    (/\ gPhase = "mounted"
     /\ Len(gEffects) = 2
     /\ gEffects[2].pc # "done")
    => getUser = GetUserInit

\* ------------------------------------------------------------ useLoadData: claims
LSettles(i) ==
    /\ i \in 1..Len(lEffects)
    /\ lEffects[i].pc = "pending"
    /\ lEffects'[i].pc = "done"

\* C8: the settlement of an activation whose cleanup has run changes none of
\* data, error, loading; a settlement that does change them is the latest
\* activation's.
C8_StaleSettlementIsSilent ==
    [][\A i \in 1..MaxActs :
          LSettles(i) =>
             /\ ~lEffects[i].isMounted => loadState' = loadState
             /\ loadState' # loadState => i = Len(lEffects)]_vars

\* C8 witness: deps changed while the first fetch was in flight, the first
\* fetch then resolved with V1, and V1 is not in data while the second
\* fetch is still pending.
C8_Witness ==
    /\ lPhase = "mounted"
    /\ Len(lEffects) = 2
    /\ ~lEffects[1].isMounted
    /\ lEffects[1].pc = "done" /\ lEffects[1].outcome = Resolved("V1")
    /\ lEffects[2].pc = "pending"
    /\ loadState = [data |-> Null, loading |-> TRUE, error |-> Null]

\* C9: when the current activation's fetch rejects with an Error, the result
\* becomes loading = false, error = the message, data = null, also when an
\* earlier activation had stored data.
C9_RejectClearsData ==
    [][\A i \in 1..MaxActs :
          (/\ LSettles(i)
           /\ i = Len(lEffects) /\ lEffects[i].isMounted
           /\ lEffects'[i].outcome.kind = "reject"
           /\ lEffects'[i].outcome.isError)
          => loadState' = [data |-> Null,
                           loading |-> FALSE,
                           error |-> lEffects'[i].outcome.message]]_vars

\* ------------------------------------------------------------ cleanup: claims
\* This step only runs cleanups: it starts no activation and settles no fetch.
QOnlyCleansUp ==
    /\ Len(qEffects') = Len(qEffects)
    /\ \A i \in 1..Len(qEffects) : qEffects'[i].pc = qEffects[i].pc

\* C11: the cleanup is idempotent: run after the activation's fetch has
\* settled it changes none of loading, data, errors and leaves the settled
\* fetch as it is, and run a second time it changes nothing at all.
C11_CleanupIdempotent ==
    [][QOnlyCleansUp =>
          /\ query' = query
          /\ \A i \in 1..Len(qEffects) :
                /\ qEffects'[i].outcome = qEffects[i].outcome
                /\ qEffects[i].aborted => qEffects'[i] = qEffects[i]]_vars

\* C11 witness: the cleanup ran (unmount) after the only fetch had resolved
\* with V1, and the result still holds V1.
C11_Witness ==
    /\ qPhase = "unmounted"
    /\ Len(qEffects) = 1
    /\ qEffects[1].aborted
    /\ qEffects[1].pc = "done" /\ qEffects[1].outcome = Resolved("V1")
    /\ query = [loading |-> FALSE, data |-> "V1", errors |-> <<>>]

\* ------------------------------------------------------------ error boundary: claims
\* C12: no fetcher failure escapes loadData (useQuery) or load (useLoadData):
\* whatever the fetcher did (resolve, reject with an Error, an AbortError or
\* a non-Error, throw when called), the promise of the async function is
\* fulfilled once the fetch has settled, and pending before.
C12_NoFailureEscapes ==
    /\ \A i \in 1..Len(qEffects) :
          qEffects[i].returned = IF qEffects[i].pc = "done" THEN "fulfilled" ELSE "pending"
    /\ \A i \in 1..Len(lEffects) :
          lEffects[i].returned = IF lEffects[i].pc = "done" THEN "fulfilled" ELSE "pending"

\* C12 witness: the fetcher of useQuery threw a non-Error when called, the
\* promise of loadData is fulfilled and the failure shows in errors.
C12_Witness ==
    /\ Len(qEffects) = 1
    /\ qEffects[1].pc = "done"
    /\ qEffects[1].outcome = Thrown(FALSE, Null, "thrown")
    /\ qEffects[1].returned = "fulfilled"
    /\ query = [loading |-> FALSE, data |-> Null, errors |-> <<"An unknown error occurred">>]

\* ------------------------------------------------------------ non-Error rejections: claims
GSettles(i) ==
    /\ i \in 1..Len(gEffects)
    /\ gEffects[i].pc # "done"
    /\ gEffects'[i].pc = "done"

GCurrent(i) == i = Len(gEffects) /\ ~gEffects[i].aborted /\ gPhase = "mounted"

LCurrent(i) == i = Len(lEffects) /\ lEffects[i].isMounted /\ lPhase = "mounted"

NotAnError(o) == o.kind \in {"reject", "throw"} /\ ~o.isError

\* C13: when the current activation's fetcher fails with a value that is no
\* Error, the value is not stored: useQuery and both useGetUser variants set
\* errors to ['An unknown error occurred'], useLoadData sets error to
\* 'Failed to fetch data'.
C13_UnknownErrorMessage ==
    [][/\ \A i \in 1..MaxActs :
            (QSettles(i) /\ QCurrent(i) /\ NotAnError(qEffects'[i].outcome))
            => query'.errors = <<"An unknown error occurred">>
       /\ \A i \in 1..MaxActs :
            (GSettles(i) /\ GCurrent(i) /\ NotAnError(gEffects'[i].outcome))
            => /\ getUser'.errors = <<"An unknown error occurred">>
               /\ inlineUser'.errors = <<"An unknown error occurred">>
       /\ \A i \in 1..MaxActs :
            (LSettles(i) /\ LCurrent(i) /\ NotAnError(lEffects'[i].outcome))
            => loadState'.error = "Failed to fetch data"]_vars

\* C13 witness: the fetch of useGetUser rejected with a non-Error and both
\* variants show the generic message.
C13_Witness ==
    /\ Len(gEffects) = 1 /\ gPhase = "mounted"
    /\ gEffects[1].pc = "done" /\ NotAnError(gEffects[1].outcome)
    /\ getUser = [loading |-> FALSE, data |-> <<>>, errors |-> <<"An unknown error occurred">>]
    /\ inlineUser = getUser

\* ------------------------------------------------------------ one fetch per activation: claims
\* C14: every activation of useQuery and useLoadData has called its fetcher
\* exactly once, a settlement (a failure included) and the re-render it
\* causes start no activation, and an activation starts only at the mount,
\* at Strict Mode's replay of the mount, or when the dependency changed.
C14_OneFetchPerActivation ==
    [][/\ \A i \in 1..Len(qEffects') : qEffects'[i].calls = 1
       /\ \A i \in 1..Len(lEffects') : lEffects'[i].calls = 1
       /\ \A i \in 1..MaxActs : QSettles(i) => Len(qEffects') = Len(qEffects)
       /\ \A i \in 1..MaxActs : LSettles(i) => Len(lEffects') = Len(lEffects)
       /\ Len(qEffects') > Len(qEffects)
            => \/ qPhase = "rendered"
               \/ qFetcher' # qFetcher
               \/ Len(qEffects) = 1 /\ qEffects[1].pc = "pending"
       /\ Len(lEffects') > Len(lEffects)
            => \/ lPhase = "rendered"
               \/ lDeps' # lDeps
               \/ Len(lEffects) = 1 /\ lEffects[1].pc = "pending"]_vars

\* C14 witness: the only activation of useQuery failed, the component has
\* rendered the error, and there is still one activation with one call.
C14_Witness ==
    /\ qPhase = "mounted"
    /\ Len(qEffects) = 1
    /\ qEffects[1].pc = "done" /\ IsFailure(qEffects[1].outcome)
    /\ qEffects[1].calls = 1
    /\ query = [loading |-> FALSE, data |-> Null, errors |-> <<"boom">>]

\* ------------------------------------------------------------ one controller per activation: claims
\* C15: every activation of useQuery starts with a signal of its own that is
\* not aborted and goes to one fetcher call; a cleanup (before the next
\* activation, or at unmount) aborts the signal of the activation it belongs
\* to; no step aborts the signal of any other activation, and an aborted
\* signal stays aborted.
C15_OwnAbortController ==
    [][/\ \A i \in 1..Len(qEffects') :
            /\ i > Len(qEffects) => ~qEffects'[i].aborted /\ qEffects'[i].calls = 1
            /\ (i <= Len(qEffects) /\ qEffects'[i].aborted /\ ~qEffects[i].aborted)
                 => i = Len(qEffects)
            /\ (i <= Len(qEffects) /\ qEffects[i].aborted) => qEffects'[i].aborted
       /\ (Len(qEffects) >= 1 /\ Len(qEffects') > Len(qEffects))
            => qEffects'[Len(qEffects)].aborted
       /\ (qPhase = "mounted" /\ qPhase' = "unmounted")
            => qEffects'[Len(qEffects)].aborted]_vars

\* C15 witness: the cleanup of the first activation has aborted its signal
\* while its fetch is in flight; the second activation's signal is not
\* aborted.
C15_Witness ==
    /\ qPhase = "mounted"
    /\ Len(qEffects) = 2
    /\ qEffects[1].aborted /\ qEffects[1].pc = "pending"
    /\ ~qEffects[2].aborted /\ qEffects[2].pc = "pending"

\* ------------------------------------------------------------ example fetchers: claims
\* C16: a call of fetchUsers, getUsers or getMenus that got a response which
\* is not ok ends rejected with an Error; a call that ends fulfilled got an ok
\* response; and fetchUsers, given an aborted signal, ends rejected with the
\* AbortError of fetch itself, which no other failure of it is named.
C16_FetchersRejectNotOk ==
    fCall.pc = "done" =>
        /\ (fCall.net.kind = "response" /\ ~fCall.net.ok)
             => fCall.outcome.kind = "reject" /\ fCall.outcome.isError
        /\ fCall.outcome.kind = "resolve"
             => fCall.net.kind = "response" /\ fCall.net.ok
        /\ fCall.fetcher = "fetchUsers"
             => (fCall.aborted <=> (fCall.outcome.isError /\ fCall.outcome.name = "AbortError"))
        /\ (fCall.fetcher = "fetchUsers" /\ fCall.aborted)
             => fCall.outcome = URejected("AbortError", "The operation was aborted.")

\* C16 witness: getUsers got a 404 with a JSON body and rejected with its
\* Error.
C16_Witness ==
    /\ fCall.pc = "done"
    /\ fCall.fetcher = "getUsers"
    /\ fCall.net = Response(FALSE, 404, ArrayBody(<<"u1">>))
    /\ fCall.outcome = URejected("Error", "Network response was not ok")

\* ------------------------------------------------------------ Modal: claims
\* C17: closeOnBackdropClick defaults to false: a click on the backdrop calls
\* no onClose when the prop is omitted and calls onClose once when the prop is
\* true, and a click inside the dialog's content calls no onClose.
C17_BackdropClickDefaultsOff ==
    mEvent.type = "click" =>
        /\ (mEvent.target = "backdrop" /\ mProps.closeOnBackdropClick = Omitted)
             => mCalled = <<>>
        /\ (mEvent.target = "backdrop" /\ mProps.closeOnBackdropClick = "true")
             => mCalled = <<mProps.onClose>>
        /\ mEvent.target = "content" => mCalled = <<>>

\* Whether the ESC effect of the last render registers a listener.
Listening == mPhase = "mounted" /\ mProps.isOpen /\ CloseOnEsc(mProps)

C19_BodyScroll ==
    [][/\ (overflow' = "hidden") <=> (mPhase' = "mounted" /\ mProps'.isOpen)
       /\ ((mPhase = "mounted" /\ mProps.isOpen) /\ ~(mPhase' = "mounted" /\ mProps'.isOpen))
            => overflow' = "unset"]_vars

\* C19 witness: the Modal was open and has unmounted, and overflow is
\* 'unset'.
C19_Witness ==
    /\ mPhase = "unmounted"
    /\ mProps.isOpen
    /\ overflow = "unset"
    /\ ~mScrollCleanup

\* ------------------------------------------------------------ button themes: claims
\* The base a call merges into: its base argument, or DEFAULT_BUTTON_THEME.
BaseOf(call) == IF call.base.given THEN call.base.theme ELSE DEFAULT_BUTTON_THEME

\* C20: the theme mergeButtonThemes(custom, base) returns has exactly the
\* variants of base and of custom, each with custom's style where custom has
\* it and base's style otherwise; with custom omitted it equals base; and
\* after the call custom, base and DEFAULT_BUTTON_THEME are what they were.
C20_MergeButtonThemes ==
    tCall.pc = "done" =>
        /\ DOMAIN tCall.result = (DOMAIN BaseOf(tCall)) \cup (DOMAIN tCall.custom.theme)
        /\ \A v \in DOMAIN tCall.custom.theme : tCall.result[v] = tCall.custom.theme[v]
        /\ \A v \in (DOMAIN BaseOf(tCall)) \ (DOMAIN tCall.custom.theme) :
              tCall.result[v] = BaseOf(tCall)[v]
        /\ ~tCall.custom.given => tCall.result = BaseOf(tCall)
        /\ tCall.customAfter = tCall.custom.theme
        /\ tCall.baseAfter = BaseOf(tCall)
        /\ defaultTheme = DEFAULT_BUTTON_THEME

\* C20 witness: a custom theme that restyles primary and adds success was
\* merged into the default theme.
C20_Witness ==
    /\ tCall.pc = "done"
    /\ ~tCall.base.given
    /\ tCall.custom.given
    /\ DOMAIN tCall.custom.theme = {"primary", "success"}
    /\ tCall.custom.theme["primary"] = "#28a745"
    /\ tCall.result["primary"] = "#28a745"
    /\ tCall.result["danger"] = "#dc3545"
    /\ DOMAIN tCall.result = {"primary", "secondary", "danger", "success"}

\* ------------------------------------------------------------ getVariantStyle: claims
\* C21: getVariantStyle returns the theme's own style for a variant the theme
\* has, and DEFAULT_BUTTON_THEME.primary for a variant the theme has not.
C21_VariantStyleFallsBack ==
    (styleCall.pc = "done" /\ styleCall.variant.given /\ styleCall.variant.name # "") =>
        styleCall.result =
            IF styleCall.variant.name \in DOMAIN styleCall.theme
            THEN Style(styleCall.theme[styleCall.variant.name])
            ELSE Style(DEFAULT_BUTTON_THEME.primary)

\* ------------------------------------------------------------ List: claims
\* C22: with no items List shows emptyMessage ('No items available' when the
\* prop is omitted) and calls renderItem never; with items it calls
\* renderItem once per item, in order, with (item, index), and returns one
\* entry per item, holding what renderItem returned and keyed by
\* keyExtractor(item, index), or without a keyExtractor by item.id, or by
\* the index when the item has no id.
C22_ListRendersItems ==
    listCall.pc = "done" =>
        LET items == listCall.props.items
            out == listCall.out
        IN  IF items = <<>>
            THEN /\ out.kind = "empty"
                 /\ out.message = IF listCall.props.emptyMessage = Omitted
                                  THEN "No items available"
                                  ELSE listCall.props.emptyMessage
                 /\ out.calls = <<>>
                 /\ out.entries = <<>>
            ELSE /\ out.kind = "list"
                 /\ Len(out.calls) = Len(items)
                 /\ Len(out.entries) = Len(items)
                 /\ \A i \in 1..Len(items) :
                       /\ out.calls[i] = [item |-> items[i], index |-> i - 1]
                       /\ out.entries[i].content = RenderItem(items[i], i - 1)
                       /\ out.entries[i].key =
                            IF listCall.props.keyExtractor # Omitted
                            THEN KeyExtractor(items[i], i - 1)
                            ELSE IF items[i].hasId THEN ToString(items[i].id)
                            ELSE ToString(i - 1)

\* C22 witness: a List without keyExtractor rendered an item without id
\* before an item whose id is 0: the keys are the index 1 and the id 0.
C22_Witness ==
    /\ listCall.pc = "done"
    /\ listCall.props.keyExtractor = Omitted
    /\ Len(listCall.props.items) = 3
    /\ ~listCall.props.items[2].hasId
    /\ listCall.props.items[3] = [hasId |-> TRUE, id |-> 0, name |-> "Alice"]
    /\ listCall.out.entries[2].key = "1"
    /\ listCall.out.entries[3].key = "0"
    /\ Len(listCall.out.calls) = 3

\* ------------------------------------------------------------ views: claims
\* C23: while mounted, the useQuery component shows EmptyData only when the
\* latest activation's fetch has settled and a fetch has resolved with zero
\* users: not while the latest fetch is in flight, and not when no fetch has
\* succeeded with an empty list.
C23_EmptyDataOnlyAfterEmptySuccess ==
    (qPhase = "mounted" /\ "EmptyData" \in QViews(query)) =>
        /\ qEffects[Len(qEffects)].pc = "done"
        /\ \E i \in 1..Len(qEffects) :
              /\ qEffects[i].pc = "done"
              /\ qEffects[i].outcome = Resolved(EmptyValue)

\* ------------------------------------------------------------ settled state: claims
\* The result that carries outcome o: its value and no errors, or its message
\* and no data.
Carried(o) ==
    IF o.kind = "resolve"
    THEN [loading |-> FALSE, data |-> o.value, errors |-> <<>>]
    ELSE [loading |-> FALSE, data |-> Null,
          errors |-> <<IF o.isError THEN o.message ELSE "An unknown error occurred">>]

IsAbortError(o) == o.kind # "resolve" /\ o.isError /\ o.name = "AbortError"

\* C24: when the fetch of the latest activation of a mounted useQuery, not
\* cancelled, settles (with anything but an AbortError), the result becomes
\* loading = false with that outcome; and from then on every step that
\* starts no activation and does not unmount leaves the result as it is.
C24_SettledStateIsReachedAndStays ==
    [][/\ \A i \in 1..MaxActs :
            (QSettles(i) /\ QCurrent(i) /\ ~IsAbortError(qEffects'[i].outcome))
            => query' = Carried(qEffects'[i].outcome)
       /\ (/\ qPhase = "mounted" /\ qPhase' = "mounted"
           /\ Len(qEffects) >= 1
           /\ Len(qEffects') = Len(qEffects)
           /\ qEffects[Len(qEffects)].pc = "done"
           /\ ~qEffects[Len(qEffects)].aborted
           /\ ~IsAbortError(qEffects[Len(qEffects)].outcome)
           /\ query = Carried(qEffects[Len(qEffects)].outcome))
          => query' = query]_vars

C26_VariantsEquivalent == getUser = inlineUser

\* C26 witness: both variants have taken the users out of an object body's
\* data property.
C26_Witness ==
    /\ gPhase = "mounted"
    /\ Len(gEffects) = 1
    /\ gEffects[1].pc = "done"
    /\ gEffects[1].body = ObjectBody(<<"u1", "u2">>)
    /\ inlineUser = [loading |-> FALSE, data |-> <<"u1", "u2">>, errors |-> <<>>]
    /\ getUser = [loading |-> FALSE, data |-> <<"u1", "u2">>, errors |-> <<>>]

\* ------------------------------------------------------------ fetchUsers result: claims
\* C27: a fetchUsers call that got an ok response and was not aborted resolves
\* to an array: the body when the body is an array, else the body's data when
\* that is an array, else the empty array.
C27_FetchUsersResolvesToArray ==
    (/\ fCall.pc = "done" /\ fCall.fetcher = "fetchUsers"
     /\ fCall.net.kind = "response" /\ fCall.net.ok /\ ~fCall.aborted)
    => /\ fCall.outcome.kind = "resolve"
       /\ IsArray(fCall.outcome.value)
       /\ fCall.outcome.value =
            IF fCall.net.body.isArray THEN fCall.net.body.items
            ELSE IF IsArray(fCall.net.body.data) THEN fCall.net.body.data
            ELSE <<>>

\* ------------------------------------------------------------ ConsoleLogger: claims
\* C28: the array most recently handed to onLog holds the messages logged
\* since the latest clear(), in call order; every array handed to onLog is
\* an array of its own (not _logs, not one handed before) and still holds
\* what it held when it was handed over.
C28_LoggerHandsFreshCopies ==
    /\ logger.handed # <<>>
         => logger.heap[logger.handed[Len(logger.handed)]] = sinceClear
    /\ \A k \in 1..Len(logger.handed) :
         /\ logger.handed[k] # logger.logs
         /\ logger.heap[logger.handed[k]] = snapshots[k]
         /\ \A j \in 1..Len(logger.handed) :
               j # k => logger.handed[j] # logger.handed[k]

\* C28 witness: log, log, clear, log: onLog got [m1], [m1, m2], [] and [m2],
\* and each still holds that.
C28_Witness ==
    /\ Len(logger.handed) = 4
    /\ sinceClear = <<"m2">>
    /\ logger.heap[logger.handed[1]] = <<"m1">>
    /\ logger.heap[logger.handed[2]] = <<"m1", "m2">>
    /\ logger.heap[logger.handed[3]] = <<>>
    /\ logger.heap[logger.handed[4]] = <<"m2">>

\* ------------------------------------------------------------ AvatarUploader: claims
\* C29: for a change event whose file list is null or empty handleUpload
\* calls storage.upload never and its promise fulfils; for any other it calls
\* storage.upload once, with the first file of the list.
C29_UploadOnlySelectedFile ==
    \A k \in 1..Len(uploader.changes) :
        LET c == uploader.changes[k]
        IN  IF c.files.isNull \/ c.files.list = <<>>
            THEN c.calls = <<>> /\ c.returned = "fulfilled"
            ELSE c.calls = <<File(c.files.list[1])>>

====
